---- MODULE Spec2Model ----
(***************************************************************************)
(* RowcacheInvalidator (go/vt/tabletserver/rowcache_invalidator.go):       *)
(* the Open/Close lifecycle, the worker goroutine with its retry loop      *)
(* around EventStreamer.Stream, and the per-event dispatch.                *)
(*                                                                         *)
(* Callers are goroutines that call Open and Close; workers are the        *)
(* goroutines launched by svm.Go.  Every step between two points where     *)
(* another goroutine can interfere is one action.                          *)
(***************************************************************************)
EXTENDS Integers, Sequences, FiniteSets, TLC

\* ------------------------------------------------------------------ bounds
MaxPos == 2          \* replication positions are 1..MaxPos
MaxLaunches == 2     \* workers launched by svm.Go in one behaviour
MaxErrors == 2       \* cap of each internalErrors counter
MaxTime == 2         \* clock readings and event timestamps are 1..MaxTime

\* ------------------------------------------------------------------ values
Callers == {"c1", "c2"}
\* goroutine slots svm.Go can launch workers into
Workers == {"w1", "w2"}
DbNames == {"db1"}
\* mysqld handles; Cnf().BinLogPath is empty for "mNoPath"
Mysqlds == {"mA", "mNoPath"}
BinLogPath(m) == IF m = "mNoPath" THEN "" ELSE "/binlog"
Nil == 0             \* nil GTID, nil *EventStreamer
NilMysqld == "nil"
Positions == 1..MaxPos
StatusErr == -1      \* MasterStatus returned err != nil
Times == 1..MaxTime
Sep == "#"
Faults == {"none", "TabletError", "other"}

NoArgs == [dbname |-> "", mysqld |-> NilMysqld, rp |-> Nil, id |-> 0, called |-> ""]

\* blproto.StreamEvent
StreamEvent(cat, sql, table, pk, gtid, ts) ==
    [Category |-> cat, Sql |-> sql, TableName |-> table, PKValues |-> pk,
     GTID |-> gtid, Timestamp |-> ts]
NoEvent == StreamEvent("", "", "", <<>>, Nil, 0)

\* the primary-key row lists of the DML events the stream delivers; the raw
\* value "bad" is one sqltypes.BuildValue rejects
PKValuesSet ==
    { <<>>,
      << <<"a">>, <<"b">> >>,
      << <<"b">>, <<"a">> >>,
      << <<"a">>, <<>> >>,
      << <<"a", "b">> >>,
      << <<"a">>, <<"bad">> >>,
      << <<"bad">> >> }

\* the events the stream delivers
Events ==
    { StreamEvent("DDL", "alter", "", <<>>, Nil, ts) : ts \in Times }
    \cup { StreamEvent("ERR", "weird", "", <<>>, Nil, ts) : ts \in Times }
    \cup { StreamEvent("DML", "", "users", pk, Nil, 1) : pk \in PKValuesSet }
    \cup { StreamEvent("POS", "", "", <<>>, g, 1) : g \in Positions }
    \cup { StreamEvent("XXX", "", "", <<>>, Nil, 1) }

VARIABLES
    svmState,        \* rci.svm state
    svmMu,           \* holder of the service manager's mutex
    mu,              \* holder of rci.mu
    dbname,          \* rci.dbname
    mysqld,          \* rci.mysqld
    evs,             \* rci.evs: Nil or the id of the EventStreamer
    stopReq,         \* the stop signal of the in-flight Stream call of evs
    gtid,            \* rci.gtid
    lagSeconds,      \* rci.lagSeconds
    internalErrors,  \* internalErrors counters "Invalidation" and "Panic"
    pc,              \* position of each caller
    args,            \* locals of each caller's Open: dbname, mysqld, rp;
                     \* history: called, the service state Open was called in
    wpc,             \* position of each worker goroutine
    svc,             \* variables captured by each worker's closure
    launched,        \* number of workers svm.Go has launched
    curEvent,        \* event of the current (or last) callback invocation
    curFault,        \* fault the cache raises for curEvent
    calls,           \* QueryEngine calls made while dispatching curEvent
    streamStart,     \* start position passed to the last Stream call
    lastPos,         \* history: GTID of the last POS event of this worker
    lastRet          \* history: how the last Open or Close call returned

vars == <<svmState, svmMu, mu, dbname, mysqld, evs, stopReq, gtid, lagSeconds,
          internalErrors, pc, args, wpc, svc, launched, curEvent, curFault,
          calls, streamStart, lastPos, lastRet>>

rciVars == <<dbname, mysqld, evs, stopReq, gtid>>
dispatchVars == <<lagSeconds, curEvent, curFault, calls, lastPos>>
callerVars == <<pc, args, lastRet>>
workerVars == <<wpc, svc, launched>>

NoneFree == "free"
NoRet == [op |-> "none", outcome |-> "none"]
Ret(op, outcome) == [op |-> op, outcome |-> outcome]

Init ==
    /\ svmState = "STOPPED"
    /\ svmMu = NoneFree
    /\ mu = NoneFree
    /\ dbname = ""
    /\ mysqld = NilMysqld
    /\ evs = Nil
    /\ stopReq = FALSE
    /\ gtid = Nil
    /\ lagSeconds = 0
    /\ internalErrors = [Invalidation |-> 0, Panic |-> 0]
    /\ pc = [c \in Callers |-> "idle"]
    /\ args = [c \in Callers |-> NoArgs]
    /\ wpc = [w \in Workers |-> "none"]
    /\ svc = [w \in Workers |-> NoArgs]
    /\ launched = 0
    /\ curEvent = NoEvent
    /\ curFault = "none"
    /\ calls = <<>>
    /\ streamStart = Nil
    /\ lastPos = Nil
    /\ lastRet = NoRet

\* ---------------------------------------------------------- position tracker
GetGTID == gtid
SetGTID(g) == gtid' = g

\* ----------------------------------------------------------- ServiceManager
LiveWorkers == { w \in Workers : wpc[w] # "none" }
FreeWorker == CHOOSE w \in Workers : wpc[w] = "none"

\* svm.Go: launches the service only from STOPPED, and makes it RUNNING
SvmGoLaunches == svmState = "STOPPED"

\* svm.Stop: waits for the service only from RUNNING, which it makes
\* SHUTTING_DOWN; else it returns at once
SvmStopWaits == svmState = "RUNNING"

\* svm.Stop: the wait is over when the service goroutine has ended
SvmServiceEnded == LiveWorkers = {}

\* ------------------------------------------------------------------- Open
OpensInProgress == { c \in Callers : pc[c] \in {"open_check", "open_go"} }

\* lines 71-72: a caller enters Open(dbname, mysqld) and MasterStatus answers
\* a position, or an error
OpenStatus(c, d, m, ans) ==
    /\ pc[c] = "idle"
    /\ launched + Cardinality(OpensInProgress) < MaxLaunches
    /\ pc' = [pc EXCEPT ![c] = "open_check"]
    /\ args' = [args EXCEPT ![c] = [dbname |-> d, mysqld |-> m, rp |-> ans,
                                    id |-> 0, called |-> svmState]]
    /\ UNCHANGED <<svmState, svmMu, mu, rciVars, dispatchVars, internalErrors,
                   workerVars, streamStart, lastRet>>

\* lines 73-78: whether Open panics with a FATAL TabletError
OpenAborts(a) == a.rp = StatusErr \/ BinLogPath(a.mysqld) = ""

\* OpenCheck without the check of line 76
OpenCheckNoPath(c) ==
    /\ pc[c] = "open_check"
    /\ IF args[c].rp = StatusErr
       THEN /\ pc' = [pc EXCEPT ![c] = "idle"]
            /\ args' = [args EXCEPT ![c] = NoArgs]
            /\ lastRet' = Ret("Open", "fatal")
       ELSE /\ pc' = [pc EXCEPT ![c] = "open_go"]
            /\ args' = [args EXCEPT ![c].called = ""]
            /\ UNCHANGED lastRet
    /\ UNCHANGED <<svmState, svmMu, mu, rciVars, dispatchVars, internalErrors,
                   workerVars, streamStart>>

\* lines 73-78: the two checks; a panic leaves Open at once
OpenCheck(c) ==
    /\ pc[c] = "open_check"
    /\ IF OpenAborts(args[c])
       THEN /\ pc' = [pc EXCEPT ![c] = "idle"]
            /\ args' = [args EXCEPT ![c] = NoArgs]
            /\ lastRet' = Ret("Open", "fatal")
       ELSE /\ pc' = [pc EXCEPT ![c] = "open_go"]
            /\ args' = [args EXCEPT ![c].called = ""]
            /\ UNCHANGED lastRet
    /\ UNCHANGED <<svmState, svmMu, mu, rciVars, dispatchVars, internalErrors,
                   workerVars, streamStart>>

\* OpenGo that starts the closure with a plain go statement
OpenGoUnchecked(c) ==
    /\ pc[c] = "open_go"
    /\ svmMu = NoneFree
    /\ \E w \in Workers : wpc[w] = "none"
    /\ svmState' = "RUNNING"
    /\ launched' = launched + 1
    /\ wpc' = [wpc EXCEPT ![FreeWorker] = "start"]
    /\ svc' = [svc EXCEPT ![FreeWorker] = [args[c] EXCEPT !.id = launched + 1]]
    /\ lastRet' = Ret("Open", "started")
    /\ pc' = [pc EXCEPT ![c] = "idle"]
    /\ args' = [args EXCEPT ![c] = NoArgs]
    /\ UNCHANGED <<svmMu, mu, rciVars, dispatchVars, internalErrors, streamStart>>

\* lines 80, 94-99: svm.Go launches the closure as a goroutine, or not
OpenGo(c) ==
    /\ pc[c] = "open_go"
    /\ svmMu = NoneFree
    /\ IF SvmGoLaunches
       THEN /\ \E w \in Workers : wpc[w] = "none"
            /\ svmState' = "RUNNING"
            /\ launched' = launched + 1
            /\ wpc' = [wpc EXCEPT ![FreeWorker] = "start"]
            /\ svc' = [svc EXCEPT ![FreeWorker] =
                         [args[c] EXCEPT !.id = launched + 1]]
            /\ lastRet' = Ret("Open", "started")
       ELSE /\ lastRet' = Ret("Open", "already")
            /\ UNCHANGED <<svmState, workerVars>>
    /\ pc' = [pc EXCEPT ![c] = "idle"]
    /\ args' = [args EXCEPT ![c] = NoArgs]
    /\ UNCHANGED <<svmMu, mu, rciVars, dispatchVars, internalErrors, streamStart>>

\* ------------------------------------------------------------------ Close
\* a Stream call is in flight
InFlight == \E w \in Workers : wpc[w] \in {"streaming", "dispatch"}

\* evs.Stop(): idempotent, makes the in-flight Stream call return
EvsStop == stopReq' = (stopReq \/ InFlight)

\* Stream ends cleanly, returning nil, when it was told to stop
StreamEnds == stopReq

\* line 105
CloseLock(c) ==
    /\ pc[c] = "idle"
    /\ mu = NoneFree
    /\ mu' = c
    /\ pc' = [pc EXCEPT ![c] = "close_check"]
    /\ UNCHANGED <<svmState, svmMu, rciVars, dispatchVars, internalErrors,
                   args, workerVars, streamStart, lastRet>>

\* lines 106-113
CloseCheck(c) ==
    /\ pc[c] = "close_check"
    /\ IF evs = Nil
       THEN /\ mu' = NoneFree
            /\ pc' = [pc EXCEPT ![c] = "idle"]
            /\ lastRet' = Ret("Close", "notrunning")
            /\ UNCHANGED stopReq
       ELSE /\ EvsStop
            /\ pc' = [pc EXCEPT ![c] = "close_unlock"]
            /\ UNCHANGED <<mu, lastRet>>
    /\ UNCHANGED <<svmState, svmMu, dbname, mysqld, evs, gtid, dispatchVars,
                   internalErrors, args, workerVars, streamStart>>

\* CloseUnlock with the unlock deferred to the end of Close
CloseUnlockKeepsMu(c) ==
    /\ pc[c] = "close_unlock"
    /\ pc' = [pc EXCEPT ![c] = "close_stop"]
    /\ UNCHANGED <<svmState, svmMu, mu, rciVars, dispatchVars, internalErrors,
                   args, workerVars, streamStart, lastRet>>

\* line 114
CloseUnlock(c) ==
    /\ pc[c] = "close_unlock"
    /\ mu' = NoneFree
    /\ pc' = [pc EXCEPT ![c] = "close_stop"]
    /\ UNCHANGED <<svmState, svmMu, rciVars, dispatchVars, internalErrors,
                   args, workerVars, streamStart, lastRet>>

\* line 117, svm.Stop: compare-and-swap RUNNING -> SHUTTING_DOWN, else return
CloseSvmStop(c) ==
    /\ pc[c] = "close_stop"
    /\ svmMu = NoneFree
    /\ IF SvmStopWaits
       THEN /\ svmState' = "SHUTTING_DOWN"
            /\ svmMu' = c
            /\ pc' = [pc EXCEPT ![c] = "close_wait"]
            /\ UNCHANGED lastRet
       ELSE /\ pc' = [pc EXCEPT ![c] = "idle"]
            /\ lastRet' = Ret("Close", "nowait")
            /\ UNCHANGED <<svmState, svmMu>>
    /\ UNCHANGED <<mu, rciVars, dispatchVars, internalErrors, args, workerVars,
                   streamStart>>

\* line 117, svm.Stop: wait for the service goroutine, then return
CloseWait(c) ==
    /\ pc[c] = "close_wait"
    /\ SvmServiceEnded
    /\ svmMu' = NoneFree
    /\ pc' = [pc EXCEPT ![c] = "idle"]
    /\ lastRet' = Ret("Close", "waited")
    /\ UNCHANGED <<svmState, mu, rciVars, dispatchVars, internalErrors, args,
                   workerVars, streamStart>>

\* ----------------------------------------------------------------- dispatch
\* sqltypes.BuildValue: fails on a value it cannot convert
BuildValue(raw) == [err |-> raw = "bad", val |-> raw]

\* buildKey: the values' renderings joined by a separator, "" for no values;
\* a string is the sequence of its pieces
RECURSIVE buildKey(_)
buildKey(sqlTypeKeys) ==
    IF Len(sqlTypeKeys) = 0 THEN <<>>
    ELSE IF Len(sqlTypeKeys) = 1 THEN <<sqlTypeKeys[1]>>
    ELSE <<sqlTypeKeys[1], Sep>> \o buildKey(Tail(sqlTypeKeys))

\* lines 185-193: the inner loop over one tuple, from column j on
RECURSIVE BuildTuple(_, _, _)
BuildTuple(pkTuple, j, sqlTypeKeys) ==
    IF j > Len(pkTuple) THEN [err |-> FALSE, sqlTypeKeys |-> sqlTypeKeys]
    ELSE IF BuildValue(pkTuple[j]).err
         THEN [err |-> TRUE, sqlTypeKeys |-> sqlTypeKeys]
         ELSE BuildTuple(pkTuple, j + 1,
                         Append(sqlTypeKeys, BuildValue(pkTuple[j]).val))

\* BuildKeys that skips a tuple with a value that fails to decode
RECURSIVE BuildKeysSkipsBad(_, _, _)
BuildKeysSkipsBad(pkValues, i, keys) ==
    IF i > Len(pkValues) THEN [err |-> FALSE, keys |-> keys]
    ELSE LET t == BuildTuple(pkValues[i], 1, <<>>)
             invalidateKey == buildKey(t.sqlTypeKeys)
         IN  IF t.err THEN BuildKeysSkipsBad(pkValues, i + 1, keys)
             ELSE BuildKeysSkipsBad(pkValues, i + 1,
                                    IF invalidateKey # <<>>
                                    THEN Append(keys, invalidateKey) ELSE keys)

\* BuildKeys without the test of line 195: empty keys are kept
RECURSIVE BuildKeysKeepsEmpty(_, _, _)
BuildKeysKeepsEmpty(pkValues, i, keys) ==
    IF i > Len(pkValues) THEN [err |-> FALSE, keys |-> keys]
    ELSE LET t == BuildTuple(pkValues[i], 1, <<>>)
             invalidateKey == buildKey(t.sqlTypeKeys)
         IN  IF t.err THEN [err |-> TRUE, keys |-> keys]
             ELSE BuildKeysKeepsEmpty(pkValues, i + 1,
                                      Append(keys, invalidateKey))

\* lines 183-198: the outer loop over the tuples, from row i on
RECURSIVE BuildKeys(_, _, _)
BuildKeys(pkValues, i, keys) ==
    IF i > Len(pkValues) THEN [err |-> FALSE, keys |-> keys]
    ELSE LET t == BuildTuple(pkValues[i], 1, <<>>)
             invalidateKey == buildKey(t.sqlTypeKeys)
         IN  IF t.err THEN [err |-> TRUE, keys |-> keys]
             ELSE BuildKeys(pkValues, i + 1,
                            IF invalidateKey # <<>>
                            THEN Append(keys, invalidateKey) ELSE keys)

\* outcome of running a piece of the dispatch code:
\*   calls   QueryEngine calls made, in order
\*   errs    additions to internalErrors "Invalidation" made by the code itself
\*   panic   the fault that unwinds out of it, "none" if it returns
Outcome(cs, errs, panic) == [calls |-> cs, errs |-> errs, panic |-> panic]

\* lines 179-200; fault is what qe.InvalidateForDml raises
handleDmlEvent(event, fault) ==
    LET r == BuildKeys(event.PKValues, 1, <<>>)
    IN  IF r.err
        THEN Outcome(<<>>, 1, "none")
        ELSE Outcome(<<[fn |-> "InvalidateForDml", table |-> event.TableName,
                        keys |-> r.keys]>>, 0, fault)

\* Switch whose ERR case falls into the POS case
SwitchErrSetsGTID(event, fault) ==
    CASE event.Category = "DDL" ->
           [out |-> Outcome(<<[fn |-> "InvalidateForDDL", sql |-> event.Sql]>>,
                            0, fault),
            setGTID |-> FALSE, lag |-> fault = "none"]
      [] event.Category = "DML" ->
           [out |-> handleDmlEvent(event, fault),
            setGTID |-> FALSE,
            lag |-> handleDmlEvent(event, fault).panic = "none"]
      [] event.Category = "ERR" ->
           [out |-> Outcome(<<[fn |-> "InvalidateForUnrecognized",
                               sql |-> event.Sql]>>, 0, fault),
            setGTID |-> fault = "none", lag |-> fault = "none"]
      [] event.Category = "POS" ->
           [out |-> Outcome(<<>>, 0, "none"), setGTID |-> TRUE, lag |-> TRUE]
      [] OTHER ->
           [out |-> Outcome(<<>>, 1, "none"), setGTID |-> FALSE, lag |-> FALSE]

\* Switch whose ERR case calls InvalidateForDDL
SwitchErrAsDDL(event, fault) ==
    CASE event.Category = "DDL" ->
           [out |-> Outcome(<<[fn |-> "InvalidateForDDL", sql |-> event.Sql]>>,
                            0, fault),
            setGTID |-> FALSE, lag |-> fault = "none"]
      [] event.Category = "DML" ->
           [out |-> handleDmlEvent(event, fault),
            setGTID |-> FALSE,
            lag |-> handleDmlEvent(event, fault).panic = "none"]
      [] event.Category = "ERR" ->
           [out |-> Outcome(<<[fn |-> "InvalidateForDDL", sql |-> event.Sql]>>,
                            0, fault),
            setGTID |-> FALSE, lag |-> fault = "none"]
      [] event.Category = "POS" ->
           [out |-> Outcome(<<>>, 0, "none"), setGTID |-> TRUE, lag |-> TRUE]
      [] OTHER ->
           [out |-> Outcome(<<>>, 1, "none"), setGTID |-> FALSE, lag |-> FALSE]

\* lines 161-175: the switch; lag tells whether line 176 is reached
Switch(event, fault) ==
    CASE event.Category = "DDL" ->
           [out |-> Outcome(<<[fn |-> "InvalidateForDDL", sql |-> event.Sql]>>,
                            0, fault),
            setGTID |-> FALSE, lag |-> fault = "none"]
      [] event.Category = "DML" ->
           [out |-> handleDmlEvent(event, fault),
            setGTID |-> FALSE,
            lag |-> handleDmlEvent(event, fault).panic = "none"]
      [] event.Category = "ERR" ->
           [out |-> Outcome(<<[fn |-> "InvalidateForUnrecognized",
                               sql |-> event.Sql]>>, 0, fault),
            setGTID |-> FALSE, lag |-> fault = "none"]
      [] event.Category = "POS" ->
           [out |-> Outcome(<<>>, 0, "none"), setGTID |-> TRUE, lag |-> TRUE]
      [] OTHER ->
           [out |-> Outcome(<<>>, 1, "none"), setGTID |-> FALSE, lag |-> FALSE]

\* handleInvalidationError that panics again on a fault it does not know
handleInvalidationErrorRethrows(x) ==
    IF x = "none" THEN [count |-> "none", panic |-> "none"]
    ELSE IF x # "TabletError" THEN [count |-> "Panic", panic |-> x]
    ELSE [count |-> "Invalidation", panic |-> "none"]

\* handleInvalidationError that counts every fault under "Invalidation"
handleInvalidationErrorOneCounter(x) ==
    IF x = "none" THEN [count |-> "none", panic |-> "none"]
    ELSE [count |-> "Invalidation", panic |-> "none"]

\* lines 146-157, deferred by processEvent: the counter the fault x is
\* counted under, and the fault that goes on unwinding after the recover
handleInvalidationError(x) ==
    IF x = "none" THEN [count |-> "none", panic |-> "none"]
    ELSE IF x # "TabletError" THEN [count |-> "Panic", panic |-> "none"]
    ELSE [count |-> "Invalidation", panic |-> "none"]

\* the fault that leaves processEvent(event)
Escapes(event, fault) ==
    handleInvalidationError(Switch(event, fault).out.panic).panic

\* internalErrors after processEvent(event) when the cache raises fault
ErrorsAfter(event, fault) ==
    LET s == Switch(event, fault)
        k == handleInvalidationError(s.out.panic).count
    IN  [Invalidation |-> internalErrors.Invalidation + s.out.errs
                            + (IF k = "Invalidation" THEN 1 ELSE 0),
         Panic |-> internalErrors.Panic + (IF k = "Panic" THEN 1 ELSE 0)]

\* the faults the cache can raise for an event: only where it is called
FaultsFor(event) ==
    IF Switch(event, "none").out.calls = <<>> THEN {"none"} ELSE Faults

\* processEvent without the return of line 174: the lag is always set
processEventLagAlways(now) ==
    LET s == Switch(curEvent, curFault)
    IN  /\ calls' = s.out.calls
        /\ IF s.setGTID
           THEN SetGTID(curEvent.GTID) /\ lastPos' = curEvent.GTID
           ELSE UNCHANGED <<gtid, lastPos>>
        /\ lagSeconds' = now - curEvent.Timestamp

\* lines 159-177: processEvent(curEvent) at clock reading now
processEvent(now) ==
    LET s == Switch(curEvent, curFault)
    IN  /\ calls' = s.out.calls
        /\ IF s.setGTID
           THEN SetGTID(curEvent.GTID) /\ lastPos' = curEvent.GTID
           ELSE UNCHANGED <<gtid, lastPos>>
        /\ IF s.lag
           THEN lagSeconds' = now - curEvent.Timestamp
           ELSE UNCHANGED lagSeconds

\* ----------------------------------------------------------------- worker
\* line 81
WorkerLock(w) ==
    /\ wpc[w] = "start"
    /\ mu = NoneFree
    /\ mu' = w
    /\ wpc' = [wpc EXCEPT ![w] = "setup"]
    /\ UNCHANGED <<svmState, svmMu, rciVars, dispatchVars, internalErrors,
                   callerVars, svc, launched, streamStart>>

\* WorkerSetup that seeds the position only when none is tracked
WorkerSetupKeepsPosition(w) ==
    /\ wpc[w] = "setup"
    /\ dbname' = svc[w].dbname
    /\ mysqld' = svc[w].mysqld
    /\ evs' = svc[w].id
    /\ stopReq' = FALSE
    /\ IF gtid = Nil THEN SetGTID(svc[w].rp) ELSE UNCHANGED gtid
    /\ lastPos' = Nil
    /\ mu' = NoneFree
    /\ wpc' = [wpc EXCEPT ![w] = "run"]
    /\ UNCHANGED <<svmState, svmMu, lagSeconds, curEvent, curFault, calls,
                   internalErrors, callerVars, svc, launched, streamStart>>

\* lines 82-86
WorkerSetup(w) ==
    /\ wpc[w] = "setup"
    /\ dbname' = svc[w].dbname
    /\ mysqld' = svc[w].mysqld
    /\ evs' = svc[w].id
    /\ stopReq' = FALSE
    /\ SetGTID(svc[w].rp)
    /\ lastPos' = Nil
    /\ mu' = NoneFree
    /\ wpc' = [wpc EXCEPT ![w] = "run"]
    /\ UNCHANGED <<svmState, svmMu, lagSeconds, curEvent, curFault, calls,
                   internalErrors, callerVars, svc, launched, streamStart>>

\* StreamOpen that starts every attempt at the position Open captured
StreamOpenFromInitial(w) ==
    /\ wpc[w] = "run"
    /\ evs # Nil
    /\ streamStart' = svc[w].rp
    /\ wpc' = [wpc EXCEPT ![w] = "streaming"]
    /\ UNCHANGED <<svmState, svmMu, mu, rciVars, dispatchVars, internalErrors,
                   callerVars, svc, launched>>

\* line 131: rci.evs.Stream(rci.GetGTID(), callback) is entered
StreamOpen(w) ==
    /\ wpc[w] = "run"
    /\ evs # Nil
    /\ streamStart' = GetGTID
    /\ wpc' = [wpc EXCEPT ![w] = "streaming"]
    /\ UNCHANGED <<svmState, svmMu, mu, rciVars, dispatchVars, internalErrors,
                   callerVars, svc, launched>>

\* lines 131-132: the stream invokes the callback with an event
StreamDeliver(w, e, f) ==
    /\ wpc[w] = "streaming"
    /\ ~StreamEnds
    /\ f \in FaultsFor(e)
    /\ ErrorsAfter(e, f).Invalidation <= MaxErrors
    /\ ErrorsAfter(e, f).Panic <= MaxErrors
    /\ curEvent' = e
    /\ curFault' = f
    /\ calls' = <<>>
    /\ wpc' = [wpc EXCEPT ![w] = "dispatch"]
    /\ UNCHANGED <<svmState, svmMu, mu, rciVars, lagSeconds, lastPos,
                   internalErrors, callerVars, svc, launched, streamStart>>

\* CountAndSleep without line 140
SleepWithoutCount(w, errors) ==
    /\ internalErrors' = errors
    /\ wpc' = [wpc EXCEPT ![w] = "backoff"]

\* lines 140-141: the error of the iteration is counted, the worker sleeps
CountAndSleep(w, errors) ==
    /\ internalErrors' = [errors EXCEPT !.Invalidation = errors.Invalidation + 1]
    /\ wpc' = [wpc EXCEPT ![w] = "backoff"]

\* lines 132-133: processEvent runs and the callback returns nil; a fault
\* leaving processEvent unwinds through Stream to the recover of line 127
ProcessEvent(w, now) ==
    /\ wpc[w] = "dispatch"
    /\ processEvent(now)
    /\ IF Escapes(curEvent, curFault) = "none"
       THEN /\ internalErrors' = ErrorsAfter(curEvent, curFault)
            /\ wpc' = [wpc EXCEPT ![w] = "streaming"]
       ELSE CountAndSleep(w, ErrorsAfter(curEvent, curFault))
    /\ UNCHANGED <<svmState, svmMu, mu, dbname, mysqld, evs, stopReq, curEvent,
                   curFault, callerVars, svc, launched, streamStart>>

\* StreamFail with the test of line 136 inverted: an error ends the loop
StreamFailBreaks(w, how) ==
    /\ wpc[w] = "streaming"
    /\ ~StreamEnds
    /\ internalErrors.Invalidation < MaxErrors
    /\ internalErrors' = [internalErrors EXCEPT
                            !.Invalidation = internalErrors.Invalidation + 1]
    /\ wpc' = [wpc EXCEPT ![w] = "ran"]
    /\ curEvent' = NoEvent
    /\ curFault' = "none"
    /\ calls' = <<>>
    /\ UNCHANGED <<svmState, svmMu, mu, rciVars, lagSeconds, lastPos,
                   callerVars, svc, launched, streamStart>>

\* lines 125-141: Stream returns an error or panics; either way err != nil,
\* the error is counted and the worker sleeps
StreamFail(w, how) ==
    /\ wpc[w] = "streaming"
    /\ ~StreamEnds
    /\ internalErrors.Invalidation < MaxErrors
    /\ CountAndSleep(w, internalErrors)
    /\ curEvent' = NoEvent
    /\ curFault' = "none"
    /\ calls' = <<>>
    /\ UNCHANGED <<svmState, svmMu, mu, rciVars, lagSeconds, lastPos,
                   callerVars, svc, launched, streamStart>>

\* line 141 ends: the sleep is over, next iteration
Backoff(w) ==
    /\ wpc[w] = "backoff"
    /\ wpc' = [wpc EXCEPT ![w] = "run"]
    /\ UNCHANGED <<svmState, svmMu, mu, rciVars, dispatchVars, internalErrors,
                   callerVars, svc, launched, streamStart>>

\* lines 131, 136-137, 143: the stopped Stream returns nil, run returns
StreamStopped(w) ==
    /\ wpc[w] = "streaming"
    /\ StreamEnds
    /\ curEvent' = NoEvent
    /\ curFault' = "none"
    /\ calls' = <<>>
    /\ wpc' = [wpc EXCEPT ![w] = "ran"]
    /\ UNCHANGED <<svmState, svmMu, mu, rciVars, lagSeconds, lastPos,
                   internalErrors, callerVars, svc, launched, streamStart>>

\* line 90
WorkerExitLock(w) ==
    /\ wpc[w] = "ran"
    /\ mu = NoneFree
    /\ mu' = w
    /\ wpc' = [wpc EXCEPT ![w] = "clear"]
    /\ UNCHANGED <<svmState, svmMu, rciVars, dispatchVars, internalErrors,
                   callerVars, svc, launched, streamStart>>

\* WorkerClear without line 91
WorkerClearKeepsEvs(w) ==
    /\ wpc[w] = "clear"
    /\ mu' = NoneFree
    /\ wpc' = [wpc EXCEPT ![w] = "return"]
    /\ UNCHANGED <<svmState, svmMu, rciVars, dispatchVars, internalErrors,
                   callerVars, svc, launched, streamStart>>

\* lines 91-92
WorkerClear(w) ==
    /\ wpc[w] = "clear"
    /\ evs' = Nil
    /\ mu' = NoneFree
    /\ wpc' = [wpc EXCEPT ![w] = "return"]
    /\ UNCHANGED <<svmState, svmMu, dbname, mysqld, stopReq, gtid, dispatchVars,
                   internalErrors, callerVars, svc, launched, streamStart>>

\* line 93 and the end of the goroutine svm.Go started: state STOPPED, done
WorkerDone(w) ==
    /\ wpc[w] = "return"
    /\ svmState' = "STOPPED"
    /\ wpc' = [wpc EXCEPT ![w] = "none"]
    /\ svc' = [svc EXCEPT ![w] = NoArgs]
    /\ UNCHANGED <<svmMu, mu, rciVars, dispatchVars, internalErrors,
                   callerVars, launched, streamStart>>

\* ---------------------------------------------------------- specification
\* Lifecycle: callers open and close concurrently with the worker; the stream
\* delivers position events, which the worker dispatches without a fault.
LifecycleEvents == { e \in Events : e.Category = "POS" }

Next ==
    \/ \E c \in Callers, d \in DbNames, m \in Mysqlds,
          ans \in Positions \cup {StatusErr} : OpenStatus(c, d, m, ans)
    \/ \E c \in Callers : OpenCheck(c)
    \/ \E c \in Callers : OpenGo(c)
    \/ \E c \in Callers : CloseLock(c)
    \/ \E c \in Callers : CloseCheck(c)
    \/ \E c \in Callers : CloseUnlock(c)
    \/ \E c \in Callers : CloseSvmStop(c)
    \/ \E c \in Callers : CloseWait(c)
    \/ \E w \in Workers : WorkerLock(w)
    \/ \E w \in Workers : WorkerSetup(w)
    \/ \E w \in Workers : StreamOpen(w)
    \/ \E w \in Workers, e \in LifecycleEvents : StreamDeliver(w, e, "none")
    \/ \E w \in Workers : ProcessEvent(w, MaxTime)
    \/ \E w \in Workers, how \in {"error", "panic"} : StreamFail(w, how)
    \/ \E w \in Workers : Backoff(w)
    \/ \E w \in Workers : StreamStopped(w)
    \/ \E w \in Workers : WorkerExitLock(w)
    \/ \E w \in Workers : WorkerClear(w)
    \/ \E w \in Workers : WorkerDone(w)

Spec == Init /\ [][Next]_vars

\* One session: the state once Open("db1", "mA") has started the service and
\* the worker has finished its setup; the stream delivers events of every
\* category, the cache raises every fault, and one caller closes.
SessionEvents ==
    { e \in Events : e.Category \in {"POS", "XXX"} }
    \cup { StreamEvent("DDL", "alter", "", <<>>, Nil, 1),
           StreamEvent("ERR", "weird", "", <<>>, Nil, 1),
           StreamEvent("DML", "", "users", << <<"a">>, <<"b">> >>, Nil, 1),
           StreamEvent("DML", "", "users", << <<"a">>, <<"bad">> >>, Nil, 1) }

InitSession ==
    /\ svmState = "RUNNING"
    /\ svmMu = NoneFree
    /\ mu = NoneFree
    /\ dbname = "db1"
    /\ mysqld = "mA"
    /\ evs = 1
    /\ stopReq = FALSE
    /\ gtid \in Positions
    /\ lagSeconds = 0
    /\ internalErrors = [Invalidation |-> 0, Panic |-> 0]
    /\ pc = [c \in Callers |-> "idle"]
    /\ args = [c \in Callers |-> NoArgs]
    /\ wpc = [w \in Workers |-> IF w = "w1" THEN "run" ELSE "none"]
    /\ svc = [w \in Workers |->
                IF w = "w1"
                THEN [dbname |-> "db1", mysqld |-> "mA", rp |-> gtid, id |-> 1,
                      called |-> ""]
                ELSE NoArgs]
    /\ launched = 1
    /\ curEvent = NoEvent
    /\ curFault = "none"
    /\ calls = <<>>
    /\ streamStart = Nil
    /\ lastPos = Nil
    /\ lastRet = Ret("Open", "started")

NextSession ==
    \/ CloseLock("c1")
    \/ CloseCheck("c1")
    \/ CloseUnlock("c1")
    \/ CloseSvmStop("c1")
    \/ CloseWait("c1")
    \/ \E w \in Workers : StreamOpen(w)
    \/ \E w \in Workers, e \in SessionEvents, f \in Faults : StreamDeliver(w, e, f)
    \/ \E w \in Workers, now \in Times : ProcessEvent(w, now)
    \/ \E w \in Workers, how \in {"error", "panic"} : StreamFail(w, how)
    \/ \E w \in Workers : Backoff(w)
    \/ \E w \in Workers : StreamStopped(w)
    \/ \E w \in Workers : WorkerExitLock(w)
    \/ \E w \in Workers : WorkerClear(w)
    \/ \E w \in Workers : WorkerDone(w)

SpecSession == InitSession /\ [][NextSession]_vars

\* The session under the scheduling the Go runtime gives: a goroutine that can
\* take its next step takes it.  Calling Close, an event arriving and the
\* stream failing are up to the environment and carry no fairness.
WorkerProgress ==
    \E w \in Workers :
        \/ StreamOpen(w)
        \/ \E now \in Times : ProcessEvent(w, now)
        \/ Backoff(w)
        \/ StreamStopped(w)
        \/ WorkerExitLock(w)
        \/ WorkerClear(w)
        \/ WorkerDone(w)

CloseProgress ==
    \/ CloseCheck("c1")
    \/ CloseUnlock("c1")
    \/ CloseSvmStop("c1")
    \/ CloseWait("c1")

FairSession ==
    SpecSession /\ WF_vars(WorkerProgress) /\ WF_vars(CloseProgress)

\* Dispatch: the worker of one session streams; the stream delivers every
\* event of Events, the cache raises every fault, the stream fails and is
\* reopened; nobody closes.
NextDispatch ==
    \/ \E w \in Workers : StreamOpen(w)
    \/ \E w \in Workers, e \in Events, f \in Faults : StreamDeliver(w, e, f)
    \/ \E w \in Workers, now \in Times : ProcessEvent(w, now)
    \/ \E w \in Workers, how \in {"error", "panic"} : StreamFail(w, how)
    \/ \E w \in Workers : Backoff(w)

SpecDispatch == InitSession /\ [][NextDispatch]_vars

\* ------------------------------------------------------------------ claims
ClosePcs == {"close_check", "close_unlock", "close_stop", "close_wait"}
RunLoop == {"run", "streaming", "dispatch", "backoff"}

\* C1: whenever a call to Close returns, the service is Stopped: the
\* service-manager state is STOPPED, evs is nil and no worker is alive.
C1_CloseReturnsStopped ==
    [][\A c \in Callers :
          (pc[c] \in ClosePcs /\ pc'[c] = "idle")
          => /\ svmState' = "STOPPED"
             /\ evs' = Nil
             /\ \A w \in Workers : wpc'[w] = "none"]_vars

\* C2: once Close has found a session (evs non-nil) and signalled it to stop,
\* the worker eventually exits and Close eventually returns, wherever the
\* worker was when the stop was signalled.
C2_CloseEventuallyReturns ==
    (pc["c1"] = "close_unlock") ~> (pc["c1"] = "idle" /\ LiveWorkers = {})

\* C3: an Open called while the service is Running does not abort, whatever
\* MasterStatus answered and whatever the configuration, and when it returns
\* with the service still Running it has been a no-op: no worker launched,
\* dbname, mysqld, evs and the tracked position unchanged.
C3_OpenWhileRunningIsNoop ==
    [][\A c \in Callers :
          /\ (pc[c] = "open_check" /\ pc'[c] # "open_check"
                /\ args[c].called = "RUNNING" /\ svmState = "RUNNING")
             => pc'[c] = "open_go"
          /\ (pc[c] = "open_go" /\ pc'[c] = "idle" /\ svmState = "RUNNING")
             => /\ lastRet' = Ret("Open", "already")
                /\ UNCHANGED <<dbname, mysqld, evs, gtid, wpc>>]_vars

\* C4: at most one worker goroutine exists in every reachable state, hence at
\* most one stream is open and at most one event is being dispatched.
C4_SingletonWorker ==
    /\ Cardinality(LiveWorkers) <= 1
    /\ Cardinality({ w \in Workers : wpc[w] \in {"streaming", "dispatch"} }) <= 1

\* an Open waits at svm.Go while a Close waits for the only worker
C4_Witness ==
    \E c \in Callers, o \in Callers :
        /\ pc[c] = "close_wait"
        /\ pc[o] = "open_go"
        /\ Cardinality(LiveWorkers) = 1

\* C5: every stream-open attempt starts at the position of the last POS event
\* dispatched by this worker, or at the position Open captured if there was
\* none; in particular after any number of stream failures.
Tracked(w) == IF lastPos # Nil THEN lastPos ELSE svc[w].rp

C5_RetryResumesFromTracked ==
    \A w \in Workers :
        (wpc[w] = "streaming" /\ curEvent = NoEvent)
        => streamStart = Tracked(w)

\* the stream has failed MaxErrors times and is reopened at the position of a
\* POS event that differs from the one Open captured
C5_Witness ==
    \E w \in Workers :
        /\ wpc[w] = "streaming"
        /\ curEvent = NoEvent
        /\ internalErrors.Invalidation = MaxErrors
        /\ lastPos # Nil
        /\ lastPos # svc[w].rp
        /\ streamStart = lastPos

\* C6: when the service is Stopped and MasterStatus failed or the binlog path
\* is empty, Open aborts with the FATAL error, launches no worker, leaves the
\* state Stopped and dbname, mysqld, evs and the tracked position unchanged.
C6_FatalOpenStartsNothing ==
    [][\A c \in Callers :
          (/\ pc[c] = "open_check"
           /\ pc'[c] # "open_check"
           /\ svmState = "STOPPED"
           /\ (args[c].rp = StatusErr \/ BinLogPath(args[c].mysqld) = ""))
          => /\ pc'[c] = "idle"
             /\ lastRet' = Ret("Open", "fatal")
             /\ svmState' = "STOPPED"
             /\ UNCHANGED <<dbname, mysqld, evs, gtid, wpc, launched>>]_vars

\* an Open has aborted and nothing was ever started
C6_Witness ==
    /\ lastRet = Ret("Open", "fatal")
    /\ svmState = "STOPPED"
    /\ LiveWorkers = {}
    /\ launched = 0
    /\ dbname = "" /\ mysqld = NilMysqld /\ evs = Nil /\ gtid = Nil

\* C7: when an Open that starts the service returns, dbname and mysqld are
\* stored, evs is installed and the tracked position is the one it captured.
C7_OpenSetupComplete ==
    [][\A c \in Callers :
          (pc[c] = "open_go" /\ pc'[c] = "idle"
             /\ lastRet' = Ret("Open", "started"))
          => /\ evs' # Nil
             /\ dbname' = args[c].dbname
             /\ mysqld' = args[c].mysqld
             /\ gtid' = args[c].rp]_vars

\* C8: the service leaves Running, the worker leaves its loop and evs is
\* cleared only after Close was invoked; a stream error, the backoff and the
\* retry leave the service state and the session handle as they are.
C8_OnlyCloseLeavesRunning ==
    [][/\ (svmState = "RUNNING" /\ svmState' # "RUNNING")
          => \/ \E c \in Callers : pc[c] = "close_stop" /\ pc'[c] = "close_wait"
             \/ \E w \in Workers : wpc[w] = "return" /\ wpc'[w] = "none" /\ stopReq
       /\ \A w \in Workers :
             (wpc[w] \in RunLoop /\ wpc'[w] \notin RunLoop) => stopReq
       /\ (evs # Nil /\ evs' = Nil) => stopReq
       /\ \A w \in Workers :
             (wpc[w] \in {"streaming", "backoff", "run"}
                /\ wpc'[w] \in {"backoff", "run", "streaming"}
                /\ wpc'[w] # wpc[w])
             => /\ svmState' = svmState
                /\ svmState \in {"RUNNING", "SHUTTING_DOWN"}
                /\ evs' = evs
                /\ evs = svc[w].id]_vars

\* the stream has failed, no Close is under way: Running, same session
C8_Witness ==
    \E w \in Workers :
        /\ wpc[w] = "backoff"
        /\ svmState = "RUNNING"
        /\ evs = svc[w].id
        /\ \A c \in Callers : pc[c] = "idle"

\* C9: the tracked position is written only by the dispatch of a POS event,
\* which sets it to the event's position, and by the seeding at worker start;
\* every other event category, a stream failure, a retry and Close leave it.
C9_OnlyPosMovesPosition ==
    [][/\ gtid' # gtid
          => \/ \E w \in Workers : /\ wpc[w] = "dispatch"
                                   /\ wpc'[w] # "dispatch"
                                   /\ curEvent.Category = "POS"
             \/ \E w \in Workers : /\ wpc[w] = "setup"
                                   /\ wpc'[w] = "run"
                                   /\ gtid' = svc[w].rp
       /\ \A w \in Workers :
             (wpc[w] = "dispatch" /\ wpc'[w] # "dispatch"
                /\ curEvent.Category = "POS")
             => gtid' = curEvent.GTID]_vars

\* a POS event moved the position away from the one Open captured
C9_Witness ==
    \E w \in Workers :
        /\ wpc[w] = "streaming"
        /\ curEvent.Category = "POS"
        /\ gtid = curEvent.GTID
        /\ gtid # svc[w].rp

\* C10: whatever the event (malformed DML, unknown category, a handler that
\* raises a fault), processEvent returns, the stream goes on without being
\* restarted, and an event the cache accepts has its invalidation performed.
C10_Decodes(e) ==
    \A i \in 1..Len(e.PKValues) :
        \A j \in 1..Len(e.PKValues[i]) : e.PKValues[i][j] # "bad"

C10_Invalidated(e, cs) ==
    CASE e.Category = "DDL" ->
           cs = <<[fn |-> "InvalidateForDDL", sql |-> e.Sql]>>
      [] e.Category = "ERR" ->
           cs = <<[fn |-> "InvalidateForUnrecognized", sql |-> e.Sql]>>
      [] e.Category = "DML" /\ C10_Decodes(e) ->
           /\ Len(cs) = 1
           /\ cs[1].fn = "InvalidateForDml"
           /\ cs[1].table = e.TableName
      [] OTHER -> cs = <<>>

C10_DispatchNeverAborts ==
    [][\A w \in Workers :
          (wpc[w] = "dispatch" /\ wpc'[w] # "dispatch")
          => /\ wpc'[w] = "streaming"
             /\ UNCHANGED <<streamStart, evs, svmState, stopReq>>
             /\ C10_Invalidated(curEvent, calls')]_vars

\* the cache raised an unknown fault for an earlier event, the stream never
\* failed, and a later DDL event has been dispatched and invalidated
C10_Witness ==
    \E w \in Workers :
        /\ wpc[w] = "streaming"
        /\ internalErrors.Panic >= 1
        /\ internalErrors.Invalidation = 0
        /\ curEvent.Category = "DDL"
        /\ curFault = "none"
        /\ Len(calls) = 1

\* a worker finishes the dispatch of curEvent in this step
Dispatched(w) == wpc[w] = "dispatch" /\ wpc'[w] # "dispatch"

\* C11: if any primary-key value of any tuple of a DML event fails to decode,
\* no InvalidateForDml call is made for the event (none for the tuples decoded
\* before the failing one either), the Invalidation counter goes up by exactly
\* one, and the tracked position is unchanged.
C11_DecodeFails(e) ==
    \E i \in 1..Len(e.PKValues) :
        \E j \in 1..Len(e.PKValues[i]) : BuildValue(e.PKValues[i][j]).err

C11_DecodeFailureAbortsEvent ==
    [][\A w \in Workers :
          (Dispatched(w) /\ curEvent.Category = "DML" /\ C11_DecodeFails(curEvent))
          => /\ calls' = <<>>
             /\ internalErrors' = [internalErrors EXCEPT
                                     !.Invalidation = internalErrors.Invalidation + 1]
             /\ gtid' = gtid]_vars

\* a DML event whose second tuple fails to decode has been dispatched
C11_Witness ==
    \E w \in Workers :
        /\ wpc[w] = "streaming"
        /\ curEvent.Category = "DML"
        /\ curEvent.PKValues = << <<"a">>, <<"bad">> >>
        /\ calls = <<>>
        /\ internalErrors.Invalidation >= 1

\* C12: for every DML event whose values all decode, exactly one
\* InvalidateForDml(tableName, keys) call is made and no other cache call,
\* keys being the keys of the event's tuples in row order with the empty keys
\* left out; the call is made also when keys is empty.
C12_NonEmpty(k) == k # <<>>

C12_Keys(e) ==
    SelectSeq([i \in 1..Len(e.PKValues) |->
                 buildKey([j \in 1..Len(e.PKValues[i]) |->
                             BuildValue(e.PKValues[i][j]).val])],
              C12_NonEmpty)

C12_DmlRoutesToOneCall ==
    [][\A w \in Workers :
          (Dispatched(w) /\ curEvent.Category = "DML" /\ ~C11_DecodeFails(curEvent))
          => calls' = <<[fn |-> "InvalidateForDml", table |-> curEvent.TableName,
                         keys |-> C12_Keys(curEvent)]>>]_vars

\* a DML event with a one-value tuple and an empty tuple has been dispatched:
\* one call, with the one key
C12_Witness ==
    \E w \in Workers :
        /\ wpc[w] = "streaming"
        /\ curEvent.Category = "DML"
        /\ curEvent.PKValues = << <<"a">>, <<>> >>
        /\ calls = <<[fn |-> "InvalidateForDml", table |-> "users",
                      keys |-> << <<"a">> >>]>>

\* C13: a DDL event causes exactly one InvalidateForDDL call with the event's
\* SQL text and no other cache call, an ERR event exactly one
\* InvalidateForUnrecognized call with its SQL text and no other cache call,
\* a POS event no cache call at all.
C13_CategoryRouting ==
    [][\A w \in Workers :
          Dispatched(w)
          => /\ curEvent.Category = "DDL"
                => calls' = <<[fn |-> "InvalidateForDDL", sql |-> curEvent.Sql]>>
             /\ curEvent.Category = "ERR"
                => calls' = <<[fn |-> "InvalidateForUnrecognized",
                               sql |-> curEvent.Sql]>>
             /\ curEvent.Category = "POS" => calls' = <<>>]_vars

\* an ERR event has been dispatched to InvalidateForUnrecognized
C13_Witness ==
    \E w \in Workers :
        /\ wpc[w] = "streaming"
        /\ curEvent.Category = "ERR"
        /\ calls = <<[fn |-> "InvalidateForUnrecognized", sql |-> "weird"]>>

\* C14: an event whose category is none of DDL, DML, ERR, POS adds exactly one
\* to the Invalidation counter, makes no cache call, leaves the lag metric and
\* the tracked position unchanged, and the stream goes on: the next event is
\* still delivered to the callback.
C14_Known == {"DDL", "DML", "ERR", "POS"}

C14_UnknownCategoryCounted ==
    [][\A w \in Workers :
          (Dispatched(w) /\ curEvent.Category \notin C14_Known)
          => /\ internalErrors' = [internalErrors EXCEPT
                                     !.Invalidation = internalErrors.Invalidation + 1]
             /\ calls' = <<>>
             /\ UNCHANGED <<lagSeconds, gtid, streamStart, evs>>
             /\ wpc'[w] = "streaming"]_vars

\* an event of unknown category has been dispatched; the lag is still the
\* negative one an earlier event left
C14_Witness ==
    \E w \in Workers :
        /\ wpc[w] = "streaming"
        /\ curEvent.Category = "XXX"
        /\ internalErrors.Invalidation >= 1
        /\ lagSeconds < 0

\* C15: for every dispatched event of category DDL, DML, ERR or POS, when
\* processEvent returns the lag metric is the clock reading minus the event's
\* timestamp, negative values included; the lag is written at no other point.
C15_LagAfterClassified ==
    [][/\ \A w \in Workers :
             (Dispatched(w) /\ curEvent.Category \in C14_Known)
             => \E now \in Times : lagSeconds' = now - curEvent.Timestamp
       /\ lagSeconds' # lagSeconds
          => \E w \in Workers : Dispatched(w) /\ curEvent.Category \in C14_Known]_vars

\* C18: a fault raised while dispatching one event adds one to exactly one
\* counter: to Invalidation if it is a TabletError, to Panic otherwise; the
\* fault does not reach the recover of run: the Stream call goes on, no
\* stream error is counted and no backoff happens.
C18_FaultCountedOnce ==
    [][\A w \in Workers :
          (Dispatched(w) /\ curFault # "none")
          => /\ curFault = "TabletError"
                => internalErrors' = [internalErrors EXCEPT
                                        !.Invalidation = internalErrors.Invalidation + 1]
             /\ curFault # "TabletError"
                => internalErrors' = [internalErrors EXCEPT
                                        !.Panic = internalErrors.Panic + 1]
             /\ wpc'[w] = "streaming"
             /\ UNCHANGED streamStart]_vars

\* the cache has raised a TabletError and an unknown fault, each counted once
C18_Witness ==
    \E w \in Workers :
        /\ wpc[w] = "streaming"
        /\ curFault = "other"
        /\ calls # <<>>
        /\ internalErrors = [Invalidation |-> 1, Panic |-> 1]

\* C16: a worker launched by an Open that follows a Close which stopped the
\* previous worker starts at the position that Open captured: its setup tracks
\* that position, and until a POS event arrives every stream open of the new
\* worker starts there, whatever the previous session tracked last.
C16_OpenStartsFresh ==
    \A w \in Workers :
        (svc[w].id > 1 /\ lastPos = Nil)
        => /\ wpc[w] \in {"run", "backoff"} => gtid = svc[w].rp
           /\ (wpc[w] = "streaming" /\ curEvent = NoEvent)
              => streamStart = svc[w].rp /\ gtid = svc[w].rp

\* the second worker is in its first Stream call: no stream has failed yet
C16_Witness ==
    \E w \in Workers :
        /\ svc[w].id = 2
        /\ wpc[w] = "streaming"
        /\ curEvent = NoEvent
        /\ internalErrors.Invalidation = 0
        /\ streamStart = svc[w].rp

\* C17: a Close that waits for the worker (or is about to) does not hold mu;
\* mu is held only across steps that need nothing from another goroutine, so
\* the exiting worker always gets mu to clear evs, and Open, Close and the
\* worker are never all blocked on mu or on each other.
C17_HoldsMuBriefly(p) ==
    \/ p \in Callers /\ pc[p] \in {"close_check", "close_unlock"}
    \/ p \in Workers /\ wpc[p] \in {"setup", "clear"}

C17_NoLockDeadlock ==
    /\ \A c \in Callers : pc[c] \in {"close_stop", "close_wait"} => mu # c
    /\ mu # NoneFree => C17_HoldsMuBriefly(mu)
    /\ svmMu # NoneFree => pc[svmMu] = "close_wait"
    /\ \A w \in Workers :
          wpc[w] \in {"start", "ran"}
          => \/ mu = NoneFree
             \/ mu \in Callers /\ pc[mu] \notin {"close_stop", "close_wait"}

\* a Close waits for the worker, which holds mu to clear evs
C17_Witness ==
    \E c \in Callers, w \in Workers :
        /\ pc[c] = "close_wait"
        /\ wpc[w] = "clear"
        /\ mu = w

C20_SessionImpliesWorker ==
    evs # Nil
    => /\ svmState # "STOPPED"
       /\ Cardinality(LiveWorkers) = 1
       /\ \E w \in Workers :
             /\ svc[w].id = evs
             /\ wpc[w] \in RunLoop \cup {"ran", "clear"}

\* the worker has left run and is about to clear evs; the state is not STOPPED
C20_Witness ==
    \E w \in Workers :
        /\ evs = svc[w].id
        /\ evs # Nil
        /\ wpc[w] = "clear"
        /\ svmState = "SHUTTING_DOWN"

====
